---- MODULE Spec2Model ----
(***************************************************************************)
(* engarde: checks over a pandas DataFrame.  Every check takes a table,    *)
(* makes its assert and returns the original table (checks.py), the        *)
(* generic verifiers live in generic.py and decorators.py wraps a          *)
(* function so that a check runs on its result.                            *)
(*                                                                         *)
(* A call is synchronous and keeps no state, so one action is one call:    *)
(* df is the table the caller holds, call is the call just made and        *)
(* outcome is what it did (returned a table, or raised).                   *)
(***************************************************************************)
EXTENDS Integers, Sequences, FiniteSets, TLC

VARIABLES df, call, outcome

vars == <<df, call, outcome>>

----------------------------------------------------------------------------
(* Bounds of the model.                                                    *)

\* The longest table the caller builds.
MaxRows == 2

----------------------------------------------------------------------------
(* The table abstraction (pandas), as far as the checks use it.            *)

SeqToSet(s) == {s[i] : i \in 1..Len(s)}

\* A cell is a number or a missing value (NaN).
Null == [null |-> TRUE, v |-> 0]

Val(n) == [null |-> FALSE, v |-> n]

\* The cells over the numbers 1 .. k.
CellsUpTo(k) == {Null} \cup {Val(n) : n \in 1..k}

Cols == <<"A", "B">>

ColSet == {"A", "B"}

Labels == {0, 1}

\* The default index of a table of n rows: 0 .. n-1.
RangeIndex(n) == [i \in 1..n |-> i - 1]

\* What pandas knows of a column's type: its dtype and the general type
\* name infer_dtype gives its values.
Kind(d, i) == [dtype |-> d, inferred |-> i]

\* The kind of a column of numbers: a missing value makes it floating.
KindOfCells(s) ==
    IF s = <<>> THEN Kind("object", "empty")
    ELSE IF \E i \in 1..Len(s) : s[i].null THEN Kind("float64", "floating")
    ELSE Kind("int64", "integer")

\* A table the caller built: object 1.  Tables the library derives from it
\* (a selection, a mask, a de-duplicated copy) are new objects, id 0.
TypedFrame(ix, d, k) ==
    [id |-> 1, index |-> ix, columns |-> Cols, data |-> d, kinds |-> k]

Frame(ix, d) == TypedFrame(ix, d, [c \in ColSet |-> KindOfCells(d[c])])

Derived(ix, cs, d) ==
    [id |-> 0, index |-> ix, columns |-> cs, data |-> d,
     kinds |-> [c \in SeqToSet(cs) |-> Kind("object", "mixed")]]

NRows(t) == Len(t.index)

NCols(t) == Len(t.columns)

RECURSIVE Flatten(_)
Flatten(ss) == IF ss = <<>> THEN <<>> ELSE Head(ss) \o Flatten(Tail(ss))

\* s[m] for a boolean mask m of the length of s.
RECURSIVE MaskSelect(_, _)
MaskSelect(s, m) ==
    IF s = <<>> THEN <<>>
    ELSE (IF Head(m) THEN <<Head(s)>> ELSE <<>>) \o MaskSelect(Tail(s), Tail(m))

\* An optional argument: None, or a value.
None == [none |-> TRUE, val |-> <<>>]

Some(x) == [none |-> FALSE, val |-> x]

\* The column lists a caller may pass: any columns of the table, in any
\* order, each once.
ColumnLists == {<<>>, <<"A">>, <<"B">>, <<"A", "B">>, <<"B", "A">>}

ColumnsArgs == {None} \cup {Some(cs) : cs \in ColumnLists}

\* df[columns]
getitem(t, columns) ==
    Derived(t.index, columns, [c \in SeqToSet(columns) |-> t.data[c]])

\* df.isnull()
isnull(t) ==
    Derived(t.index, t.columns,
            [c \in SeqToSet(t.columns) |-> [i \in 1..NRows(t) |-> t.data[c][i].null]])

\* mask.any().any()
AnyAny(m) == \E c \in SeqToSet(m.columns) : \E i \in 1..NRows(m) : m.data[c][i]

\* np.asarray(df): rows of cells
asarray(t) == [i \in 1..NRows(t) |-> [j \in 1..NCols(t) |-> t.data[t.columns[j]][i]]]

\* ndarray.ravel(order): Fortran order walks a column at a time, C order a
\* row at a time.
ravel(arr, ncols, fortran) ==
    IF fortran
    THEN Flatten([j \in 1..ncols |-> [i \in 1..Len(arr) |-> arr[i][j]]])
    ELSE Flatten(arr)

----------------------------------------------------------------------------
(* What a call does.                                                       *)

Return(t) == [kind |-> "return", ret |-> t]

Raise(e, a) == [kind |-> "raise", exc |-> e, args |-> a]

NoCall == [name |-> "none"]

NoOutcome == [kind |-> "none"]

----------------------------------------------------------------------------
(* generic.py: error reporting                                             *)

bad_locations_rowmajor(m) ==
    LET all_locs == Flatten([j \in 1..NCols(m) |->
                        [i \in 1..NRows(m) |-> <<m.index[i], m.columns[j]>>]])
    IN MaskSelect(all_locs, ravel(asarray(m), NCols(m), FALSE))

\* ravel(1): an order that is not a string is taken by its truth value, and 1
\* is Fortran order.
bad_locations(m) ==
    LET all_locs == Flatten([j \in 1..NCols(m) |->
                        [i \in 1..NRows(m) |-> <<m.index[i], m.columns[j]>>]])
    IN MaskSelect(all_locs, ravel(asarray(m), NCols(m), TRUE))

----------------------------------------------------------------------------
(* generic.py: verify_df                                                   *)

\* The checks a caller passes to verify_df: each takes the table and returns
\* a bool.
TableChecks == {"has_rows", "no_nulls", "never"}

ApplyCheck(check, t) ==
    CASE check = "has_rows" -> NRows(t) > 0
      [] check = "no_nulls" -> ~AnyAny(isnull(t))
      [] OTHER -> FALSE

verify_df(t, check) ==
    IF ~ApplyCheck(check, t)
    THEN Raise("AssertionError", <<"is not true", check, t>>)
    ELSE Return(t)

----------------------------------------------------------------------------
(* generic.py: verify_df_series, verify_columns, verify_rows               *)

\* The functions a caller passes: each takes a column (or a row) and returns
\* a bool.
Funcs == {"no_null", "all_ones", "never"}

Apply(func, s) ==
    CASE func = "no_null" -> \A i \in 1..Len(s) : ~s[i].null
      [] func = "all_ones" -> \A i \in 1..Len(s) : s[i] = Val(1)
      [] OTHER -> FALSE

\* x or slice(None): None and the empty list are falsy and select everything.
OrAll(x, all) == IF x.none \/ x.val = <<>> THEN all ELSE x.val

\* The positions of the rows df.loc[rows] selects: for each label asked for,
\* the rows that carry it.
LocRows(t, labels) ==
    Flatten([k \in 1..Len(labels) |->
        MaskSelect([i \in 1..NRows(t) |-> i],
                   [i \in 1..NRows(t) |-> t.index[i] = labels[k]])])

\* df.loc[rows, columns]
loc(t, labels, columns) ==
    LET pos == LocRows(t, labels)
    IN Derived([i \in 1..Len(pos) |-> t.index[pos[i]]], columns,
               [c \in SeqToSet(columns) |-> [i \in 1..Len(pos) |-> t.data[c][pos[i]]]])

\* check_df.agg(func, axis): a Series with one result per column (axis 0) or
\* per row (axis 1), labelled by the column names or the row labels.
agg(t, func, axis) ==
    IF axis = 0
    THEN [index |-> t.columns,
          values |-> [j \in 1..NCols(t) |-> Apply(func, t.data[t.columns[j]])]]
    ELSE [index |-> t.index,
          values |-> [i \in 1..NRows(t) |->
                        Apply(func, [j \in 1..NCols(t) |-> t.data[t.columns[j]][i]])]]

SeriesAll(r) == \A i \in 1..Len(r.values) : r.values[i]

SeriesAny(r) == \E i \in 1..Len(r.values) : r.values[i]

\* result_df[result_df == False].index.tolist()
not_passed(r) == MaskSelect(r.index, [i \in 1..Len(r.values) |-> r.values[i] = FALSE])

\* The reduction by how: "all", "any", or no result for any other value.
reduce_how_lenient(r, how) ==
    IF how = "any" THEN Some(SeriesAny(r)) ELSE Some(SeriesAll(r))

reduce_how_swapped(r, how) ==
    IF how = "all" THEN Some(SeriesAny(r))
    ELSE IF how = "any" THEN Some(SeriesAll(r))
    ELSE None

reduce_how(r, how) ==
    IF how = "all" THEN Some(SeriesAll(r))
    ELSE IF how = "any" THEN Some(SeriesAny(r))
    ELSE None

verify_df_series(t, func, columns, rows, axis, how) ==
    LET check_df == loc(t, OrAll(rows, t.index), OrAll(columns, t.columns))
        result_df == agg(check_df, func, axis)
        result == reduce_how(result_df, how)
        msg == IF axis = 0 THEN "These columns don't pass the validation"
               ELSE "These rows don't pass the validation"
    IN IF result.none
       THEN Raise("ValueError",
                  <<"Parameter 'how' must be either 'all' or 'any', was", how>>)
       ELSE IF ~result.val
       THEN Raise("AssertionError", <<msg, not_passed(result_df)>>)
       ELSE Return(t)

verify_columns(t, func, columns, how) ==
    verify_df_series(t, func, columns, None, 0, how)

verify_rows(t, func, rows, how) ==
    verify_df_series(t, func, None, rows, 1, how)

----------------------------------------------------------------------------
(* checks.py                                                               *)

none_missing_selection(t, columns) ==
    LET cols == IF columns.none THEN t.columns ELSE columns.val
    IN IF ~ ~AnyAny(isnull(getitem(t, cols)))
       THEN Raise("AssertionError", bad_locations(isnull(getitem(t, cols))))
       ELSE Return(getitem(t, cols))

none_missing(t, columns) ==
    LET cols == IF columns.none THEN t.columns ELSE columns.val
    IN IF ~ ~AnyAny(isnull(getitem(t, cols)))
       THEN Raise("AssertionError", bad_locations(isnull(getitem(t, cols))))
       ELSE Return(t)

\* Index.is_monotonic_increasing (is_monotonic is the same property): each
\* value is at least the one before it; a missing value compares with
\* nothing and clears the flag, also when it is the only value.
is_monotonic_increasing(s) ==
    /\ \A i \in 1..Len(s) : ~s[i].null
    /\ \A i \in 2..Len(s) : s[i - 1].v <= s[i].v

\* Index.is_monotonic_decreasing
is_monotonic_decreasing(s) ==
    /\ \A i \in 1..Len(s) : ~s[i].null
    /\ \A i \in 2..Len(s) : s[i - 1].v >= s[i].v

\* s.to_series().diff().dropna(): the differences of consecutive values,
\* without those that are missing (the first, and any next to a missing value).
diff_dropna(s) ==
    LET d == [i \in 2..Len(s) |-> s[i].v - s[i - 1].v]
        ok == [i \in 1..Len(s) - 1 |-> ~s[i].null /\ ~s[i + 1].null]
    IN MaskSelect([i \in 1..Len(s) - 1 |-> d[i + 1]], ok)

AllPositive(d) == \A i \in 1..Len(d) : d[i] > 0

AllNegative(d) == \A i \in 1..Len(d) : d[i] < 0

\* The directions a caller asks for: True, False or None.
Directions == {"True", "False", "None"}

\* One turn of the loop of is_monotonic: whether column s is good.
good_unstrict(s, increasing, strict) ==
    IF increasing = "True" THEN is_monotonic_increasing(s)
    ELSE IF increasing = "None"
         THEN is_monotonic_increasing(s) \/ is_monotonic_decreasing(s)
         ELSE is_monotonic_decreasing(s)

good(s, increasing, strict) ==
    LET good0 == IF increasing = "True" THEN is_monotonic_increasing(s)
                 ELSE IF increasing = "None"
                      THEN is_monotonic_increasing(s) \/ is_monotonic_decreasing(s)
                      ELSE is_monotonic_decreasing(s)
    IN IF strict
       THEN IF increasing = "True" THEN good0 /\ AllPositive(diff_dropna(s))
            ELSE IF increasing = "None"
                 THEN good0 /\ (AllPositive(diff_dropna(s)) \/ AllNegative(diff_dropna(s)))
                 ELSE good0 /\ AllNegative(diff_dropna(s))
       ELSE good0

\* A dict is the list of its <<key, value>> items, in the order of iteration.
RECURSIVE is_monotonic_loop(_, _)
is_monotonic_loop(t, items) ==
    IF items = <<>> THEN Return(t)
    ELSE LET col == Head(items)[1]
             d == Head(items)[2]
         IN IF ~good(t.data[col], d.increasing, d.strict)
            THEN Raise("AssertionError", <<>>)
            ELSE is_monotonic_loop(t, Tail(items))

is_monotonic(t, items, increasing, strict) ==
    LET its == IF items.none
               THEN [j \in 1..NCols(t) |->
                        <<t.columns[j], [increasing |-> increasing, strict |-> strict]>>]
               ELSE items.val
    IN is_monotonic_loop(t, its)

\* A rule of has_dtypes: a function of the dtype, or a string (the name of
\* an inferred type, or of a dtype).
Fn(name) == [type |-> "function", name |-> name]

Str(name) == [type |-> "str", name |-> name]

\* What a function returned: its Python type and its truth value.
Result(ty, truth) == [type |-> ty, truth |-> truth]

\* v(dtype) for the functions callers pass: two predicates of pandas.api.types
\* and three functions that do not return a bool.
CallFn(name, dtype) ==
    CASE name = "is_float_dtype" -> Result("bool", dtype \in {"float64"})
      [] name = "is_complex_dtype" -> Result("bool", dtype \in {"complex64", "complex128"})
      [] name = "returns_yes" -> Result("str", TRUE)
      [] name = "returns_one" -> Result("int", TRUE)
      [] OTHER -> Result("NoneType", FALSE)

infer_strings ==
    {"string", "unicode", "bytes",
     "floating", "integer", "mixed-integer",
     "mixed-integer-float", "complex,", "categorical",
     "boolean", "datetime64", "datetime",
     "date", "timedelta64", "timedelta",
     "time", "period", "mixed"}

\* The numpy dtype a string names, "invalid" when it names none.
ToDtype(v) ==
    CASE v \in {"int64", "float64", "complex64", "complex128", "object", "bool"} -> v
      [] v = "complex" -> "complex128"
      [] v = "float" -> "float64"
      [] OTHER -> "invalid"

\* pandas.api.types.is_dtype_equal: False when either side is no dtype.
is_dtype_equal(dtype, v) == ToDtype(v) # "invalid" /\ dtype = ToDtype(v)

MsgNotBool == "The function for key must return a boolean, returned type"

MsgWrongForFunction == "Column has the wrong dtype for function"

MsgInfer == "Column expected for infer_dtype, got"

MsgDtype == "Column is checked for dtype, had dtype"

\* One turn of the loop of has_dtypes over the item (k, v): the failure it
\* raises, or None.
has_dtypes_item_truthy(t, k, v) ==
    LET dtype == t.kinds[k].dtype
    IN IF v.type = "function"
       THEN LET result == CallFn(v.name, dtype)
            IN IF ~result.truth
               THEN Some(Raise("AssertionError", <<MsgWrongForFunction, k, dtype, v.name>>))
               ELSE None
       ELSE IF v.name \in infer_strings
       THEN IF ~(t.kinds[k].inferred = v.name)
            THEN Some(Raise("AssertionError", <<MsgInfer, k, v.name, t.kinds[k].inferred>>))
            ELSE None
       ELSE IF ~is_dtype_equal(dtype, v.name)
       THEN Some(Raise("AssertionError", <<MsgDtype, k, v.name, dtype>>))
       ELSE None

has_dtypes_item(t, k, v) ==
    LET dtype == t.kinds[k].dtype
    IN IF v.type = "function"
       THEN LET result == CallFn(v.name, dtype)
            IN IF ~(result.type = "bool")
               THEN Some(Raise("AssertionError", <<MsgNotBool, k, result.type>>))
               ELSE IF ~result.truth
               THEN Some(Raise("AssertionError", <<MsgWrongForFunction, k, dtype, v.name>>))
               ELSE None
       ELSE IF v.name \in infer_strings
       THEN IF ~(t.kinds[k].inferred = v.name)
            THEN Some(Raise("AssertionError", <<MsgInfer, k, v.name, t.kinds[k].inferred>>))
            ELSE None
       ELSE IF ~is_dtype_equal(dtype, v.name)
       THEN Some(Raise("AssertionError", <<MsgDtype, k, v.name, dtype>>))
       ELSE None

RECURSIVE has_dtypes_loop(_, _)
has_dtypes_loop(t, items) ==
    IF items = <<>> THEN Return(t)
    ELSE LET r == has_dtypes_item(t, Head(items)[1], Head(items)[2])
         IN IF ~r.none THEN r.val ELSE has_dtypes_loop(t, Tail(items))

\* items is a mapping, or a single rule that is checked on every column.
has_dtypes(t, items) ==
    LET its == IF ~items.mapping
               THEN [j \in 1..NCols(t) |-> <<t.columns[j], items.rule>>]
               ELSE items.dict
    IN has_dtypes_loop(t, its)

\* lower > df[k] and upper < df[k], cell by cell: a comparison with a missing
\* value is False.
NumGtCell(x, c) == ~c.null /\ x > c.v

NumLtCell(x, c) == ~c.null /\ x < c.v

\* A Series: its labels and its values.
Series(ix, vs) == [index |-> ix, values |-> vs]

RECURSIVE within_range_loop(_, _)
within_range_loop(t, items) ==
    IF items = <<>> THEN Return(t)
    ELSE LET k == Head(items)[1]
             lower == Head(items)[2][1]
             upper == Head(items)[2][2]
             col == t.data[k]
         IN IF (\E i \in 1..Len(col) : NumGtCell(lower, col[i]))
               \/ (\E i \in 1..Len(col) : NumLtCell(upper, col[i]))
            THEN Raise("AssertionError",
                       <<"Outside range",
                         Series(t.index, [i \in 1..Len(col) |->
                            NumGtCell(lower, col[i]) \/ NumLtCell(upper, col[i])])>>)
            ELSE within_range_loop(t, Tail(items))

within_range(t, items) == within_range_loop(t, items)

\* Two cells hold the same value, as drop_duplicates and unique see it: two
\* missing values are the same.
SameCell(a, b) == a = b

\* a == b, cell by cell: a missing value equals nothing.
CellEq(a, b) == ~a.null /\ ~b.null /\ a.v = b.v

\* rows.drop_duplicates(): the first of each run of equal rows is kept.
RECURSIVE drop_duplicates(_)
drop_duplicates(rows) ==
    IF rows = <<>> THEN <<>>
    ELSE LET init == drop_duplicates(SubSeq(rows, 1, Len(rows) - 1))
             last == rows[Len(rows)]
         IN IF \E i \in 1..Len(init) :
                 SameCell(init[i][1], last[1]) /\ SameCell(init[i][2], last[2])
            THEN init ELSE Append(init, last)

\* Series.unique(): the distinct values in order of first appearance.
RECURSIVE unique(_)
unique(s) ==
    IF s = <<>> THEN <<>>
    ELSE LET init == unique(SubSeq(s, 1, Len(s) - 1))
         IN IF \E i \in 1..Len(init) : SameCell(init[i], s[Len(s)])
            THEN init ELSE Append(init, s[Len(s)])

RECURSIVE one_to_many_loop(_, _, _, _, _)
one_to_many_loop(t, subset, manys, unitcol, manycol) ==
    IF manys = <<>> THEN Return(t)
    ELSE LET many == Head(manys)
             shape0 == Cardinality({i \in 1..Len(subset) : CellEq(subset[i][1], many)})
         IN IF shape0 > 1
            THEN Raise("AssertionError",
                       <<"has multiple values for", many, manycol, unitcol>>)
            ELSE one_to_many_loop(t, subset, Tail(manys), unitcol, manycol)

\* subset is the list of the distinct rows (many, unit).
one_to_many(t, unitcol, manycol) ==
    LET subset == drop_duplicates([i \in 1..NRows(t) |->
                        <<t.data[manycol][i], t.data[unitcol][i]>>])
    IN one_to_many_loop(t, subset, unique([i \in 1..Len(subset) |-> subset[i][1]]),
                        unitcol, manycol)

\* One dimension of the shape asked for: a count, -1 or None.  The message
\* of a failure is modelled by its parts: the format, the shape asked for
\* and the actual shape.
DimOk(actual, want) ==
    (~want.none /\ want.val = actual) \/ (~want.none /\ want.val = -1) \/ want.none

is_shape_either(t, shape) ==
    IF ~(DimOk(NRows(t), shape[1]) \/ DimOk(NCols(t), shape[2]))
    THEN Raise("AssertionError",
               <<"Expected shape, Actual shape", shape, <<NRows(t), NCols(t)>>>>)
    ELSE Return(t)

is_shape(t, shape) ==
    IF ~(DimOk(NRows(t), shape[1]) /\ DimOk(NCols(t), shape[2]))
    THEN Raise("AssertionError",
               <<"Expected shape, Actual shape", shape, <<NRows(t), NCols(t)>>>>)
    ELSE Return(t)

\* Series.is_unique: no value twice (two missing values are the same value).
SeriesIsUnique(s) ==
    \A i \in 1..Len(s) : \A j \in 1..Len(s) : SameCell(s[i], s[j]) => i = j

RECURSIVE is_unique_loop(_, _)
is_unique_loop(t, columns) ==
    IF columns = <<>> THEN Return(t)
    ELSE IF ~SeriesIsUnique(t.data[Head(columns)])
         THEN Raise("AssertionError",
                    <<"Column contains non-unique values", Head(columns)>>)
         ELSE is_unique_loop(t, Tail(columns))

is_unique(t, columns) ==
    is_unique_loop(t, IF columns.none THEN t.columns ELSE columns.val)

\* The numbers of S in increasing order.
RECURSIVE SortedSeq(_)
SortedSeq(S) ==
    IF S = {} THEN <<>>
    ELSE LET lo == CHOOSE x \in S : \A y \in S : x <= y
         IN <<lo>> \o SortedSeq(S \ {lo})

\* Index.get_duplicates(): the labels that occur more than once, sorted.
get_duplicates(ix) ==
    SortedSeq({ix[i] : i \in {j \in 1..Len(ix) : \E k \in 1..Len(ix) : k # j /\ ix[k] = ix[j]}})

unique_index(t) ==
    IF ~(\A i \in 1..NRows(t) : \A j \in 1..NRows(t) : t.index[i] = t.index[j] => i = j)
    THEN Raise("AssertionError", get_duplicates(t.index))
    ELSE Return(t)

\* df[k].isin(v) for a set v of numbers: a missing value is in no such set.
IsIn(c, v) == ~c.null /\ c.v \in v

RECURSIVE within_set_loop(_, _)
within_set_loop(t, items) ==
    IF items = <<>> THEN Return(t)
    ELSE LET k == Head(items)[1]
             v == Head(items)[2]
             col == t.data[k]
             notin == [i \in 1..Len(col) |-> ~IsIn(col[i], v)]
         IN IF ~(\A i \in 1..Len(col) : IsIn(col[i], v))
            THEN Raise("AssertionError",
                       <<"Not in set",
                         Series(MaskSelect(t.index, notin), MaskSelect(col, notin))>>)
            ELSE within_set_loop(t, Tail(items))

within_set(t, items) == within_set_loop(t, items)

RECURSIVE SumSeq(_)
SumSeq(s) == IF s = <<>> THEN 0 ELSE Head(s) + SumSeq(Tail(s))

\* The numbers of a column: mean() and std() skip the missing values.
Numbers(col) ==
    LET vs == [i \in 1..Len(col) |-> col[i].v]
    IN MaskSelect(vs, [i \in 1..Len(col) |-> ~col[i].null])

\* np.abs(v - mean) < n * std for the cell at row i of a column, in exact
\* arithmetic.  With N numbers of sum S, mean = S / N and
\* std^2 = sum((N*x - S)^2) / (N^2 * (N - 1)), so that the comparison is
\* (N - 1) * (N*v - S)^2 < n^2 * sum((N*x - S)^2).  The std of fewer than two
\* numbers is NaN, and so is the deviation of a missing value: the
\* comparison is then False.
Inlier(col, i, n) ==
    LET xs == Numbers(col)
        N == Len(xs)
        S == SumSeq(xs)
        sq == SumSeq([k \in 1..N |-> (N * xs[k] - S) * (N * xs[k] - S)])
    IN /\ ~col[i].null
       /\ N >= 2
       /\ (N - 1) * (N * col[i].v - S) * (N * col[i].v - S) < n * n * sq

within_n_std(t, n) ==
    LET outliers == Derived(t.index, t.columns,
                        [c \in SeqToSet(t.columns) |->
                            [i \in 1..NRows(t) |-> ~Inlier(t.data[c], i, n)]])
    IN IF ~(\A c \in SeqToSet(t.columns) : \A i \in 1..NRows(t) : Inlier(t.data[c], i, n))
       THEN Raise("AssertionError", <<bad_locations(outliers)>>)
       ELSE Return(t)

\* tm.assert_frame_equal(df, df_to_compare): the same index, columns, dtypes
\* and values, a missing value being equal to a missing value.
FrameEqual(a, b) ==
    /\ a.index = b.index
    /\ a.columns = b.columns
    /\ a.kinds = b.kinds
    /\ a.data = b.data

is_same_as(t, df_to_compare) ==
    IF ~FrameEqual(t, df_to_compare)
    THEN Raise("AssertionError", <<"DataFrames are not equal">>)
    ELSE Return(t)

----------------------------------------------------------------------------
(* Tables                                                                  *)

\* Tables of n rows with any labels and cells of C.
LabelledFrames(n, C) ==
    {Frame(ix, d) : ix \in [1..n -> Labels], d \in [ColSet -> [1..n -> C]]}

\* Tables of n rows with the default index and cells of C.
Frames(n, C) == {Frame(RangeIndex(n), d) : d \in [ColSet -> [1..n -> C]]}

----------------------------------------------------------------------------
(* none_missing                                                            *)

InitMissing ==
    /\ df \in UNION {LabelledFrames(n, CellsUpTo(1)) : n \in 0..MaxRows}
    /\ call = NoCall
    /\ outcome = NoOutcome

NoneMissingCall(Columns) ==
    \E columns \in Columns :
        /\ call.name = "none"
        /\ call' = [name |-> "none_missing", columns |-> columns]
        /\ outcome' = none_missing(df, columns)
        /\ UNCHANGED df

NextMissing == NoneMissingCall(ColumnsArgs)

SpecMissing == InitMissing /\ [][NextMissing]_vars

\* The columns a none_missing call selects, as the caller reads them.
SelectedCols == IF call.columns.none THEN df.columns ELSE call.columns.val

\* The null cells of the selected columns: <<position of the column in the
\* selection, row position>>.
NullPos ==
    {p \in (1..Len(SelectedCols)) \X (1..NRows(df)) :
        df.data[SelectedCols[p[1]]][p[2]].null}

\* Column by column, and within a column in row order.
Before(p, q) == p[1] < q[1] \/ (p[1] = q[1] /\ p[2] < q[2])

\* C7: none_missing raises if and only if a cell of the selected columns (all
\* columns when columns is None) is null, whatever the unselected columns
\* hold; the payload is then exactly the (row label, column name) pairs of
\* those null cells, column by column and within a column in row order.
C7_NoneMissing ==
    call.name = "none_missing" =>
        /\ outcome.kind = "raise" <=> NullPos # {}
        /\ outcome.kind = "return" <=> NullPos = {}
        /\ outcome.kind = "raise" =>
            /\ Len(outcome.args) = Cardinality(NullPos)
            /\ \A p \in NullPos :
                outcome.args[Cardinality({q \in NullPos : Before(q, p)}) + 1]
                    = <<df.index[p[2]], SelectedCols[p[1]]>>

\* A call restricted to one column fails on its null cell while the other
\* column, which is not selected, holds a null too.
C7_Witness ==
    /\ call.name = "none_missing"
    /\ ~call.columns.none
    /\ call.columns.val = <<"B">>
    /\ outcome.kind = "raise"
    /\ Len(outcome.args) = 1
    /\ \E i \in 1..NRows(df) : df.data["A"][i].null

----------------------------------------------------------------------------
(* verify_columns, verify_rows                                             *)

Hows == {"all", "any", "bogus"}

RECURSIVE Perms(_)
\* The lists that hold each element of S once.
Perms(S) ==
    IF S = {} THEN {<<>>}
    ELSE UNION {{<<x>> \o p : p \in Perms(S \ {x})} : x \in S}

\* The row lists a caller may pass for table t: labels of t, each once.
RowsArgs(t) ==
    {None} \cup {Some(p) : p \in UNION {Perms(S) : S \in SUBSET SeqToSet(t.index)}}

InitVerify ==
    /\ df \in UNION {Frames(n, CellsUpTo(2)) : n \in 0..MaxRows}
    /\ call = NoCall
    /\ outcome = NoOutcome

VerifyColumnsCall(Columns, Modes) ==
    \E func \in Funcs, columns \in Columns, how \in Modes :
        /\ call.name = "none"
        /\ call' = [name |-> "verify_columns", func |-> func, sel |-> columns,
                    how |-> how]
        /\ outcome' = verify_columns(df, func, columns, how)
        /\ UNCHANGED df

\* The row lists are those of at most Longest labels.
VerifyRowsCall(Longest, Modes) ==
    \E func \in Funcs, how \in Modes,
       rows \in {r \in RowsArgs(df) : Len(r.val) <= Longest} :
        /\ call.name = "none"
        /\ call' = [name |-> "verify_rows", func |-> func, sel |-> rows,
                    how |-> how]
        /\ outcome' = verify_rows(df, func, rows, how)
        /\ UNCHANGED df

NextVerify == VerifyColumnsCall(ColumnsArgs, Hows) \/ VerifyRowsCall(MaxRows, Hows)

SpecVerify == InitVerify /\ [][NextVerify]_vars

IsVerifyCall == call.name \in {"verify_columns", "verify_rows"}

\* The labels of the selected columns (verify_columns) or rows (verify_rows):
\* the list the caller passed; None, and the empty list, select them all.
VerifySelected ==
    IF call.sel.none \/ call.sel.val = <<>>
    THEN (IF call.name = "verify_columns" THEN df.columns ELSE df.index)
    ELSE call.sel.val

\* The boolean func gives for the selected column, or row, labelled l.
VerifyBool(l) ==
    IF call.name = "verify_columns"
    THEN Apply(call.func, df.data[l])
    ELSE LET i == CHOOSE i \in 1..NRows(df) : df.index[i] = l
         IN Apply(call.func, [j \in 1..NCols(df) |-> df.data[df.columns[j]][i]])

\* C2: verify_columns (verify_rows) returns the table, with how='all', if and
\* only if func is True of every selected column (row) and, with how='any',
\* if and only if it is True of at least one; otherwise it raises an
\* assertion failure that lists exactly the selected columns (rows) of which
\* func is False.
C2_VerifyHow ==
    (IsVerifyCall /\ call.how \in {"all", "any"}) =>
        LET sel == VerifySelected
            pass == IF call.how = "all"
                    THEN \A k \in 1..Len(sel) : VerifyBool(sel[k])
                    ELSE \E k \in 1..Len(sel) : VerifyBool(sel[k])
        IN /\ outcome.kind = "return" <=> pass
           /\ outcome.kind = "return" => outcome.ret = df
           /\ outcome.kind # "return" =>
                /\ outcome.kind = "raise"
                /\ outcome.exc = "AssertionError"
                /\ SeqToSet(outcome.args[2]) = {l \in SeqToSet(sel) : ~VerifyBool(l)}
                /\ \A k \in 1..Len(sel) : \A m \in 1..Len(sel) :
                    (k < m /\ ~VerifyBool(sel[k]) /\ ~VerifyBool(sel[m])) =>
                        \E a \in 1..Len(outcome.args[2]) : \E b \in 1..Len(outcome.args[2]) :
                            a < b /\ outcome.args[2][a] = sel[k] /\ outcome.args[2][b] = sel[m]
                /\ Len(outcome.args[2]) = Cardinality({l \in SeqToSet(sel) : ~VerifyBool(l)})

\* how='any' passes with one column that satisfies func and one that does
\* not.
C2_Witness ==
    /\ call.name = "verify_columns"
    /\ call.how = "any"
    /\ call.func = "no_null"
    /\ outcome.kind = "return"
    /\ \E i \in 1..NRows(df) : df.data["A"][i].null
    /\ \A i \in 1..NRows(df) : ~df.data["B"][i].null

\* C3: with a how that is neither 'all' nor 'any', verify_columns and
\* verify_rows raise ValueError: never an assertion failure, never the table,
\* whatever func gives for the columns (rows).
C3_HowValueError ==
    (IsVerifyCall /\ call.how \notin {"all", "any"}) =>
        /\ outcome.kind = "raise"
        /\ outcome.exc = "ValueError"

\* how='bogus' raises ValueError although func is True of every column.
C3_Witness ==
    /\ call.name = "verify_columns"
    /\ call.how = "bogus"
    /\ call.func = "no_null"
    /\ call.sel.none
    /\ NRows(df) > 0
    /\ \A c \in ColSet : \A i \in 1..NRows(df) : ~df.data[c][i].null
    /\ outcome.kind = "raise"
    /\ outcome.exc = "ValueError"

----------------------------------------------------------------------------
(* is_monotonic                                                            *)

\* The dicts over the columns, with values of V: lists of items with each
\* key at most once, in column order (Ordered) or in any order.
DictsInOrder(V) ==
    {<<>>}
    \cup {<<<<c, v>>>> : c \in ColSet, v \in V}
    \cup {<<<<"A", v>>, <<"B", w>>>> : v \in V, w \in V}

Dicts(V) ==
    DictsInOrder(V) \cup {<<<<"B", v>>, <<"A", w>>>> : v \in V, w \in V}

MonoDirectives == [increasing : Directions, strict : BOOLEAN]

\* Tables of n rows for is_monotonic: column A holds any cells, column B any
\* numbers.
MonoFrames(n) ==
    {Frame(RangeIndex(n), [c \in ColSet |-> IF c = "A" THEN a ELSE b]) :
        a \in [1..n -> CellsUpTo(3)], b \in [1..n -> {Val(1), Val(2)}]}

InitMono ==
    /\ df \in UNION {MonoFrames(n) : n \in 0..MaxRows + 1}
    /\ call = NoCall
    /\ outcome = NoOutcome

\* increasing and strict keep their defaults when items is given: they are
\* read only when it is None.
MonoArgs(D) ==
    [items : {None}, increasing : Directions, strict : BOOLEAN]
    \cup [items : {Some(d) : d \in D}, increasing : {"None"}, strict : {FALSE}]

IsMonotonicCall(Args) ==
    \E items \in {a.items : a \in Args},
       increasing \in Directions, strict \in BOOLEAN :
        /\ call.name = "none"
        /\ [items |-> items, increasing |-> increasing, strict |-> strict] \in Args
        /\ call' = [name |-> "is_monotonic", items |-> items,
                    increasing |-> increasing, strict |-> strict]
        /\ outcome' = is_monotonic(df, items, increasing, strict)
        /\ UNCHANGED df

NextMono == IsMonotonicCall(MonoArgs(DictsInOrder(MonoDirectives)))

SpecMono == InitMono /\ [][NextMono]_vars

\* a <= b of two cells: a missing value compares with nothing, itself
\* included.
CellLe(a, b) == ~a.null /\ ~b.null /\ a.v <= b.v

NonDecreasing(s) == \A i \in 1..Len(s) : \A j \in i..Len(s) : CellLe(s[i], s[j])

NonIncreasing(s) == \A i \in 1..Len(s) : \A j \in i..Len(s) : CellLe(s[j], s[i])

EqualConsecutive(s) ==
    \E i \in 1..Len(s) - 1 : ~s[i].null /\ ~s[i + 1].null /\ s[i].v = s[i + 1].v

\* Column s satisfies the directive (increasing, strict).
Satisfies(s, increasing, strict) ==
    /\ CASE increasing = "True" -> NonDecreasing(s)
         [] increasing = "False" -> NonIncreasing(s)
         [] OTHER -> NonDecreasing(s) \/ NonIncreasing(s)
    /\ strict => ~EqualConsecutive(s)

\* C6: is_monotonic returns the table if and only if every checked column
\* satisfies its directive: the one the items map gives it or, when items is
\* None, the global (increasing, strict) for every column.  increasing=True
\* asks for non-decreasing values, False for non-increasing, None for either,
\* and strict forbids equal consecutive values.
C6_IsMonotonic ==
    call.name = "is_monotonic" =>
        /\ outcome.kind \in {"return", "raise"}
        /\ outcome.kind = "return" <=>
            IF call.items.none
            THEN \A c \in ColSet : Satisfies(df.data[c], call.increasing, call.strict)
            ELSE \A k \in 1..Len(call.items.val) :
                    Satisfies(df.data[call.items.val[k][1]],
                              call.items.val[k][2].increasing,
                              call.items.val[k][2].strict)
        /\ outcome.kind = "return" => outcome.ret = df

\* [1, 1, 2] with strict=True, increasing=True raises.
C6_Witness ==
    /\ call.name = "is_monotonic"
    /\ df.data["A"] = <<Val(1), Val(1), Val(2)>>
    /\ df.data["B"] = <<Val(1), Val(2), Val(2)>>
    /\ call.items = Some(<<<<"A", [increasing |-> "True", strict |-> TRUE]>>>>)
    /\ outcome.kind = "raise"

----------------------------------------------------------------------------
(* has_dtypes                                                              *)

\* The kinds of column the typed tables hold.
DtypeKinds ==
    {Kind("int64", "integer"), Kind("float64", "floating"),
     Kind("complex128", "complex"), Kind("complex64", "complex"),
     Kind("object", "string"), Kind("object", "mixed-integer"),
     Kind("bool", "boolean")}

\* Tables of one row whose columns are of any kinds.
TypedFrames ==
    {TypedFrame(RangeIndex(1), [c \in ColSet |-> <<Val(1)>>], k) :
        k \in [ColSet -> DtypeKinds]}

\* The type names infer_dtype may give.
InferredNames ==
    {"string", "unicode", "bytes", "floating", "integer", "mixed-integer",
     "mixed-integer-float", "complex", "categorical", "boolean", "datetime64",
     "datetime", "date", "timedelta64", "timedelta", "time", "period", "mixed"}

FnNames == {"is_float_dtype", "is_complex_dtype", "returns_yes", "returns_one",
            "returns_none"}

Rules ==
    {Fn(n) : n \in FnNames}
    \cup {Str(n) : n \in InferredNames \cup infer_strings}
    \cup {Str(n) : n \in {"int64", "float64", "complex128", "object"}}

\* items of has_dtypes: a mapping, or a single rule.
Mapping(d) == [mapping |-> TRUE, rule |-> Str(""), dict |-> d]

Single(v) == [mapping |-> FALSE, rule |-> v, dict |-> <<>>]

DtypeItems(R) == {Single(v) : v \in R} \cup {Mapping(d) : d \in DictsInOrder(R)}

InitDtypes ==
    /\ df \in TypedFrames
    /\ call = NoCall
    /\ outcome = NoOutcome

HasDtypesCall(Items) ==
    \E items \in Items :
        /\ call.name = "none"
        /\ call' = [name |-> "has_dtypes", items |-> items]
        /\ outcome' = has_dtypes(df, items)
        /\ UNCHANGED df

NextDtypes == HasDtypesCall(DtypeItems(Rules))

SpecDtypes == InitDtypes /\ [][NextDtypes]_vars

\* The items of the call as a list of (column, rule): a single rule stands
\* for every column.
CallItems ==
    IF call.items.mapping THEN call.items.dict
    ELSE [j \in 1..Len(df.columns) |-> <<df.columns[j], call.items.rule>>]

\* The rule is a predicate function that returns something that is no bool.
NonBoolRule(k, v) ==
    v.type = "function" /\ CallFn(v.name, df.kinds[k].dtype).type # "bool"

\* The rule the call gives for column k.
KeyRule(k) == CallItems[CHOOSE n \in 1..Len(CallItems) : CallItems[n][1] = k][2]

UsesOnly(R) == \A n \in 1..Len(CallItems) : CallItems[n][2] \in R

\* C4 as stated: a predicate that returns a non-boolean makes has_dtypes raise
\* a configuration error, an error of another kind than the validation
\* failure (AssertionError) of a predicate that returns False or a dtype that
\* does not match.
C4_ConfigurationErrorKind ==
    (call.name = "has_dtypes" /\ Len(CallItems) > 0
     /\ NonBoolRule(CallItems[1][1], CallItems[1][2]))
    => (outcome.kind = "raise" /\ outcome.exc # "AssertionError")

\* C4, amended: a predicate that returns a non-boolean makes has_dtypes raise
\* an AssertionError, the error kind of a validation failure, and the message
\* tells the two apart: "The function for key ... must return a boolean" is
\* raised for a column whose predicate returned a non-boolean and for no
\* other.  A non-boolean result never passes, truthy or not.
C4_NonBooleanMessage ==
    call.name = "has_dtypes" =>
        /\ (\E n \in 1..Len(CallItems) : NonBoolRule(CallItems[n][1], CallItems[n][2]))
            => (outcome.kind = "raise" /\ outcome.exc = "AssertionError")
        /\ (Len(CallItems) > 0 /\ NonBoolRule(CallItems[1][1], CallItems[1][2]))
            => (outcome.kind = "raise" /\ outcome.args[1] = MsgNotBool
                /\ outcome.args[2] = CallItems[1][1])
        /\ outcome.kind = "raise" =>
            /\ outcome.exc = "AssertionError"
            /\ outcome.args[1] = MsgNotBool <=> NonBoolRule(outcome.args[2], KeyRule(outcome.args[2]))

\* A predicate returns "yes" for column A: the call raises, though "yes" is
\* truthy.
C4_Witness ==
    /\ call.name = "has_dtypes"
    /\ call.items = Mapping(<<<<"A", Fn("returns_yes")>>>>)
    /\ outcome.kind = "raise"
    /\ outcome.exc = "AssertionError"
    /\ outcome.args[1] = MsgNotBool

\* C5: has_dtypes with the names of inferred types as rules passes if and
\* only if the inferred type name of each column is the name asked for it.
C5_InferredTypeRule ==
    (call.name = "has_dtypes" /\ UsesOnly({Str(n) : n \in InferredNames})) =>
        (outcome.kind = "return" <=>
            \A n \in 1..Len(CallItems) :
                df.kinds[CallItems[n][1]].inferred = CallItems[n][2].name)

----------------------------------------------------------------------------
(* within_range                                                            *)

\* The (low, high) bounds callers pass.
Bounds == {<<1, 3>>, <<1, 2>>, <<2, 2>>, <<2, 3>>}

InitRange ==
    /\ df \in UNION {Frames(n, CellsUpTo(3)) : n \in 0..MaxRows}
    /\ call = NoCall
    /\ outcome = NoOutcome

WithinRangeCall(Items) ==
    \E items \in Items :
        /\ call.name = "none"
        /\ call' = [name |-> "within_range", items |-> items]
        /\ outcome' = within_range(df, items)
        /\ UNCHANGED df

NextRange == WithinRangeCall(Dicts(Bounds))

SpecRange == InitRange /\ [][NextRange]_vars

\* low <= v <= high: a missing value satisfies no comparison.
InRange(c, b) == ~c.null /\ b[1] <= c.v /\ c.v <= b[2]

\* Item n of the call has a value outside its bounds.
Violating(n) ==
    \E i \in 1..NRows(df) : ~InRange(df.data[call.items[n][1]][i], call.items[n][2])

\* C9: within_range returns the table if and only if every value of every
\* mapped column satisfies low <= v <= high, bounds included; otherwise (a
\* missing value satisfies no comparison) it raises 'Outside range' with a
\* mask that is True exactly at the violating rows of the first violating
\* column.
C9_WithinRange ==
    call.name = "within_range" =>
        /\ outcome.kind = "return" <=> \A n \in 1..Len(call.items) : ~Violating(n)
        /\ outcome.kind = "return" => outcome.ret = df
        /\ outcome.kind # "return" =>
            /\ outcome.kind = "raise"
            /\ outcome.args[1] = "Outside range"
            /\ \E n \in 1..Len(call.items) :
                /\ Violating(n)
                /\ \A m \in 1..(n - 1) : ~Violating(m)
                /\ outcome.args[2].values =
                    [i \in 1..NRows(df) |->
                        ~InRange(df.data[call.items[n][1]][i], call.items[n][2])]

----------------------------------------------------------------------------
(* one_to_many                                                             *)

InitOneToMany ==
    /\ df \in UNION {Frames(n, CellsUpTo(2)) : n \in 0..MaxRows + 1}
    /\ call = NoCall
    /\ outcome = NoOutcome

OneToManyCall ==
    \E unitcol \in ColSet, manycol \in ColSet :
        /\ call.name = "none"
        /\ unitcol # manycol
        /\ call' = [name |-> "one_to_many", unitcol |-> unitcol, manycol |-> manycol]
        /\ outcome' = one_to_many(df, unitcol, manycol)
        /\ UNCHANGED df

NextOneToMany == OneToManyCall

SpecOneToMany == InitOneToMany /\ [][NextOneToMany]_vars

\* The distinct values of unitcol that co-occur with the value m of manycol.
UnitsOf(m) ==
    {df.data[call.unitcol][i] : i \in {j \in 1..NRows(df) : df.data[call.manycol][j] = m}}

\* The row where the value m of manycol first appears.
FirstRow(m) ==
    CHOOSE i \in 1..NRows(df) :
        /\ df.data[call.manycol][i] = m
        /\ \A j \in 1..(i - 1) : df.data[call.manycol][j] # m

\* C10: one_to_many returns the table if and only if every distinct value of
\* manycol co-occurs with exactly one distinct value of unitcol; otherwise
\* it raises, naming the first value of manycol, in order of first
\* appearance, that co-occurs with two or more.
C10_OneToMany ==
    call.name = "one_to_many" =>
        LET manys == SeqToSet(df.data[call.manycol])
            bad == {m \in manys : Cardinality(UnitsOf(m)) > 1}
        IN /\ outcome.kind = "return" <=> bad = {}
           /\ outcome.kind = "return" => outcome.ret = df
           /\ outcome.kind # "return" =>
                /\ outcome.kind = "raise"
                /\ outcome.exc = "AssertionError"
                /\ outcome.args[2] \in bad
                /\ \A m \in bad : FirstRow(outcome.args[2]) <= FirstRow(m)

----------------------------------------------------------------------------
(* Every check, on the tables a caller builds                              *)

\* Tables of n rows whose index is the default one, or one label repeated.
CallerFrames(n) ==
    {Frame(ix, d) : ix \in {RangeIndex(n), [i \in 1..n |-> 0]},
                    d \in [ColSet -> [1..n -> CellsUpTo(2)]]}

\* The shapes a caller asks for: each dimension a count, -1 or None.
Dims == {None, Some(-1)} \cup {Some(n) : n \in 0..MaxRows}

Shapes == Dims \X Dims

\* The tables a caller compares t with: t itself, an equal copy, and a table
\* that differs in column A.
Others(t) ==
    {t,
     [t EXCEPT !.id = 2],
     [Frame(t.index, [c \in ColSet |->
        IF c = "A" THEN [i \in 1..NRows(t) |-> Null] ELSE t.data[c]]) EXCEPT !.id = 2]}

\* None, or the first label of the table.
FewRowsArgs(t) == {None} \cup {Some(<<t.index[i]>>) : i \in {1} \cap (1..NRows(t))}

FewColumnsArgs == {None, Some(<<"B">>)}

FewMonoArgs ==
    MonoArgs({<<<<"A", [increasing |-> "True", strict |-> TRUE]>>>>,
              <<<<"B", [increasing |-> "False", strict |-> FALSE]>>>>})

FewDtypeItems ==
    {Single(Str("int64")), Single(Str("integer")), Single(Fn("returns_yes")),
     Mapping(<<<<"A", Fn("is_float_dtype")>>>>), Mapping(<<<<"B", Str("floating")>>>>)}

FewBounds == {<<1, 2>>, <<2, 2>>}

FewSets == {{1}, {1, 2}}

StdWidths == {1, 2, 3}

IsShapeCall ==
    \E shape \in Shapes :
        /\ call.name = "none"
        /\ call' = [name |-> "is_shape", shape |-> shape]
        /\ outcome' = is_shape(df, shape)
        /\ UNCHANGED df

IsUniqueCall ==
    \E columns \in ColumnsArgs :
        /\ call.name = "none"
        /\ call' = [name |-> "is_unique", columns |-> columns]
        /\ outcome' = is_unique(df, columns)
        /\ UNCHANGED df

UniqueIndexCall ==
    /\ call.name = "none"
    /\ call' = [name |-> "unique_index"]
    /\ outcome' = unique_index(df)
    /\ UNCHANGED df

WithinSetCall ==
    \E items \in DictsInOrder(FewSets) :
        /\ call.name = "none"
        /\ call' = [name |-> "within_set", items |-> items]
        /\ outcome' = within_set(df, items)
        /\ UNCHANGED df

WithinNStdCall ==
    \E n \in StdWidths :
        /\ call.name = "none"
        /\ call' = [name |-> "within_n_std", n |-> n]
        /\ outcome' = within_n_std(df, n)
        /\ UNCHANGED df

IsSameAsCall ==
    \E df_to_compare \in Others(df) :
        /\ call.name = "none"
        /\ call' = [name |-> "is_same_as", df_to_compare |-> df_to_compare]
        /\ outcome' = is_same_as(df, df_to_compare)
        /\ UNCHANGED df

VerifyDfCall ==
    \E check \in TableChecks :
        /\ call.name = "none"
        /\ call' = [name |-> "verify_df", check |-> check]
        /\ outcome' = verify_df(df, check)
        /\ UNCHANGED df

Init ==
    /\ df \in UNION {CallerFrames(n) : n \in 0..MaxRows}
    /\ call = NoCall
    /\ outcome = NoOutcome

Next ==
    \/ NoneMissingCall(ColumnsArgs)
    \/ IsMonotonicCall(FewMonoArgs)
    \/ IsShapeCall
    \/ IsUniqueCall
    \/ UniqueIndexCall
    \/ WithinSetCall
    \/ WithinRangeCall(DictsInOrder(FewBounds))
    \/ WithinNStdCall
    \/ HasDtypesCall(FewDtypeItems)
    \/ OneToManyCall
    \/ IsSameAsCall
    \/ VerifyDfCall
    \/ VerifyColumnsCall(FewColumnsArgs, Hows)
    \/ VerifyRowsCall(1, Hows)

Spec == Init /\ [][Next]_vars

CheckNames ==
    {"none_missing", "is_monotonic", "is_shape", "is_unique", "unique_index",
     "within_set", "within_range", "within_n_std", "has_dtypes", "one_to_many",
     "is_same_as", "verify_df", "verify_columns", "verify_rows"}

\* C1: a call of any check either raises or returns the very table it was
\* given (the same object, not a copy, a selection or a part), and the
\* table holds after the call what it held before.
C1_PassThrough ==
    [][call'.name \in CheckNames =>
        /\ df' = df
        /\ outcome'.kind \in {"return", "raise"}
        /\ outcome'.kind = "return" => outcome'.ret = df]_vars

\* A check restricted to one column has returned the whole table.
C1_Witness ==
    /\ call.name = "none_missing"
    /\ call.columns = Some(<<"B">>)
    /\ NRows(df) > 0
    /\ outcome.kind = "return"
    /\ outcome.ret = df
    /\ outcome.ret.columns = <<"A", "B">>

----------------------------------------------------------------------------
(* decorators.py                                                           *)

\* ck.<attr>(result, ...): the attribute is looked up in the namespace of
\* checks.py, which holds the checks it defines and the two verifiers it
\* imports from generic (verify_df, verify_columns); any other name raises
\* AttributeError.  p holds the arguments passed.
CkCall(attr, t, p) ==
    CASE attr = "none_missing" -> none_missing(t, p.columns)
      [] attr = "is_shape" -> is_shape(t, p.shape)
      [] attr = "is_unique" -> is_unique(t, p.columns)
      [] attr = "unique_index" -> unique_index(t)
      [] attr = "is_monotonic" -> is_monotonic(t, p.items, p.increasing, p.strict)
      [] attr = "within_set" -> within_set(t, p.items)
      [] attr = "within_range" -> within_range(t, p.items)
      [] attr = "within_n_std" -> within_n_std(t, p.n)
      [] attr = "has_dtypes" -> has_dtypes(t, p.items)
      [] attr = "one_to_many" -> one_to_many(t, p.unitcol, p.manycol)
      [] attr = "is_same_as" -> is_same_as(t, p.df_to_compare)
      [] attr = "verify_df" -> verify_df(t, p.check)
      [] attr = "verify_columns" -> verify_columns(t, p.func, p.columns, p.how)
      [] OTHER -> Raise("AttributeError", <<"module 'engarde.checks' has no attribute", attr>>)

\* The arguments a caller passes to the wrapped function.
FuncArgs == {<<>>, <<1>>}

\* wrapper(*args, **kwargs): result = func(*args, **kwargs), then the check on
\* result, then return result.  df is the table func returns; fcalls lists
\* the calls of func, by their arguments.
WrapperCall(deco, args, captured) ==
    [name |-> "wrapped", deco |-> deco, args |-> args, fcalls |-> <<args>>,
     captured |-> captured]

\* What the wrapper does once the check has returned or raised.
wrapper(result, checked) == IF checked.kind = "raise" THEN checked ELSE Return(result)

DecoNoneMissing ==
    \E args \in FuncArgs, columns \in ColumnsArgs :
        /\ call.name = "none"
        /\ call' = WrapperCall("none_missing", args, [columns |-> columns])
        /\ outcome' = wrapper(df, CkCall("none_missing", df, [columns |-> columns]))
        /\ UNCHANGED df

DecoIsShape ==
    \E args \in FuncArgs, shape \in Shapes :
        /\ call.name = "none"
        /\ call' = WrapperCall("is_shape", args, [shape |-> shape])
        /\ outcome' = wrapper(df, CkCall("is_shape", df, [shape |-> shape]))
        /\ UNCHANGED df

DecoUnique ==
    \E args \in FuncArgs, columns \in ColumnsArgs :
        /\ call.name = "none"
        /\ call' = WrapperCall("unique", args, [columns |-> columns])
        /\ outcome' = wrapper(df, CkCall("unique", df, [columns |-> columns]))
        /\ UNCHANGED df

DecoUniqueIndex ==
    \E args \in FuncArgs :
        /\ call.name = "none"
        /\ call' = WrapperCall("unique_index", args, [none |-> TRUE])
        /\ outcome' = wrapper(df, CkCall("unique_index", df, [none |-> TRUE]))
        /\ UNCHANGED df

DecoIsMonotonic ==
    \E args \in FuncArgs, a \in FewMonoArgs :
        /\ call.name = "none"
        /\ call' = WrapperCall("is_monotonic", args, a)
        /\ outcome' = wrapper(df, CkCall("is_monotonic", df, a))
        /\ UNCHANGED df

DecoWithinSet ==
    \E args \in FuncArgs, items \in DictsInOrder(FewSets) :
        /\ call.name = "none"
        /\ call' = WrapperCall("within_set", args, [items |-> items])
        /\ outcome' = wrapper(df, CkCall("within_set", df, [items |-> items]))
        /\ UNCHANGED df

DecoWithinRange ==
    \E args \in FuncArgs, items \in DictsInOrder(FewBounds) :
        /\ call.name = "none"
        /\ call' = WrapperCall("within_range", args, [items |-> items])
        /\ outcome' = wrapper(df, CkCall("within_range", df, [items |-> items]))
        /\ UNCHANGED df

DecoWithinNStd ==
    \E args \in FuncArgs, n \in StdWidths :
        /\ call.name = "none"
        /\ call' = WrapperCall("within_n_std", args, [n |-> n])
        /\ outcome' = wrapper(df, CkCall("within_n_std", df, [n |-> n]))
        /\ UNCHANGED df

DecoHasDtypes ==
    \E args \in FuncArgs, items \in FewDtypeItems :
        /\ call.name = "none"
        /\ call' = WrapperCall("has_dtypes", args, [items |-> items])
        /\ outcome' = wrapper(df, CkCall("has_dtypes", df, [items |-> items]))
        /\ UNCHANGED df

DecoOneToMany ==
    \E args \in FuncArgs, unitcol \in ColSet, manycol \in ColSet :
        /\ call.name = "none"
        /\ unitcol # manycol
        /\ call' = WrapperCall("one_to_many", args, [unitcol |-> unitcol, manycol |-> manycol])
        /\ outcome' = wrapper(df, CkCall("one_to_many", df, [unitcol |-> unitcol, manycol |-> manycol]))
        /\ UNCHANGED df

DecoVerifyDf ==
    \E args \in FuncArgs, check \in TableChecks :
        /\ call.name = "none"
        /\ call' = WrapperCall("verify_df", args, [check |-> check])
        /\ outcome' = wrapper(df, CkCall("verify_df", df, [check |-> check]))
        /\ UNCHANGED df

\* how travels in **kwargs.
DecoVerifyColumns ==
    \E args \in FuncArgs, func \in Funcs, columns \in FewColumnsArgs, how \in Hows :
        /\ call.name = "none"
        /\ call' = WrapperCall("verify_columns", args, [func |-> func, columns |-> columns, how |-> how])
        /\ outcome' = wrapper(df, CkCall("verify_columns", df, [func |-> func, columns |-> columns, how |-> how]))
        /\ UNCHANGED df

\* The wrapper passes rows=None, whatever rows the decorator was given.
DecoVerifyRows ==
    \E args \in FuncArgs, func \in Funcs, rows \in FewRowsArgs(df), how \in Hows :
        /\ call.name = "none"
        /\ call' = WrapperCall("verify_rows", args, [func |-> func, rows |-> rows, how |-> how])
        /\ outcome' = wrapper(df, CkCall("verify_rows", df, [func |-> func, rows |-> None, how |-> how]))
        /\ UNCHANGED df

DecoIsSameAs ==
    \E args \in FuncArgs, df_to_compare \in Others(df) :
        /\ call.name = "none"
        /\ call' = WrapperCall("is_same_as", args, [df_to_compare |-> df_to_compare])
        /\ outcome' = wrapper(df, CkCall("is_same_as", df, [df_to_compare |-> df_to_compare]))
        /\ UNCHANGED df

NextDeco ==
    \/ DecoNoneMissing
    \/ DecoIsShape
    \/ DecoUnique
    \/ DecoUniqueIndex
    \/ DecoIsMonotonic
    \/ DecoWithinSet
    \/ DecoWithinRange
    \/ DecoWithinNStd
    \/ DecoHasDtypes
    \/ DecoOneToMany
    \/ DecoVerifyDf
    \/ DecoVerifyColumns
    \/ DecoVerifyRows
    \/ DecoIsSameAs

SpecDeco == Init /\ [][NextDeco]_vars

\* The check that matches decorator deco, on table t with the parameters p
\* the decorator captured.
MatchingCheck(deco, t, p) ==
    CASE deco = "none_missing" -> none_missing(t, p.columns)
      [] deco = "is_shape" -> is_shape(t, p.shape)
      [] deco = "unique" -> is_unique(t, p.columns)
      [] deco = "unique_index" -> unique_index(t)
      [] deco = "is_monotonic" -> is_monotonic(t, p.items, p.increasing, p.strict)
      [] deco = "within_set" -> within_set(t, p.items)
      [] deco = "within_range" -> within_range(t, p.items)
      [] deco = "within_n_std" -> within_n_std(t, p.n)
      [] deco = "has_dtypes" -> has_dtypes(t, p.items)
      [] deco = "one_to_many" -> one_to_many(t, p.unitcol, p.manycol)
      [] deco = "verify_df" -> verify_df(t, p.check)
      [] deco = "verify_columns" -> verify_columns(t, p.func, p.columns, p.how)
      [] deco = "verify_rows" -> verify_rows(t, p.func, p.rows, p.how)
      [] deco = "is_same_as" -> is_same_as(t, p.df_to_compare)

\* C8: a wrapped function calls f once with the arguments it was given, runs
\* the matching check with the captured parameters on f's result, and
\* returns that result when the check passes and raises the check's failure
\* when it does not.
C8_DecoratorRunsCheck ==
    call.name = "wrapped" =>
        LET expected == MatchingCheck(call.deco, df, call.captured)
        IN /\ call.fcalls = <<call.args>>
           /\ expected.kind = "return" => outcome = Return(df)
           /\ expected.kind = "raise" => outcome = expected

----------------------------------------------------------------------------
(* is_shape                                                                *)

\* The column lists of the tables is_shape is called on: none to three.
ShapeColumns == {<<>>, <<"A">>, <<"A", "B">>, <<"A", "B", "C">>}

\* Tables of n rows with the columns cs, every cell holding c.
ShapeFrame(n, cs, c) ==
    [id |-> 1, index |-> RangeIndex(n), columns |-> cs,
     data |-> [k \in SeqToSet(cs) |-> [i \in 1..n |-> c]],
     kinds |-> [k \in SeqToSet(cs) |-> KindOfCells([i \in 1..n |-> c])]]

InitShape ==
    /\ df \in {ShapeFrame(n, cs, c) :
                n \in 0..MaxRows, cs \in ShapeColumns, c \in CellsUpTo(1)}
    /\ call = NoCall
    /\ outcome = NoOutcome

NextShape == IsShapeCall

SpecShape == InitShape /\ [][NextShape]_vars

\* A dimension asked for is met by the actual count: it is None, -1 or
\* that count.
Unconstrained(want) == want = None \/ want = Some(-1)

Meets(want, actual) == Unconstrained(want) \/ want = Some(actual)

\* C11: is_shape(df, (r, c)) returns the table if and only if r is -1, None
\* or the table's row count and c is -1, None or the table's column count,
\* each dimension on its own; otherwise it raises an AssertionError whose
\* message holds the shape asked for and the actual shape.
C11_IsShape ==
    call.name = "is_shape" =>
        /\ outcome.kind = "return" <=>
                (Meets(call.shape[1], NRows(df)) /\ Meets(call.shape[2], NCols(df)))
        /\ outcome.kind = "return" => outcome.ret = df
        /\ outcome.kind # "return" =>
            /\ outcome.kind = "raise"
            /\ outcome.exc = "AssertionError"
            /\ outcome.args[2] = call.shape
            /\ outcome.args[3] = <<NRows(df), NCols(df)>>

\* is_shape(T, (-1, 2)) fails on a table of three columns, whatever its rows.
C11_Witness ==
    /\ call.name = "is_shape"
    /\ call.shape = <<Some(-1), Some(2)>>
    /\ NRows(df) = MaxRows
    /\ NCols(df) = 3
    /\ outcome.kind = "raise"

----------------------------------------------------------------------------
(* within_n_std                                                            *)

\* Tables of up to MaxRows + 1 rows: three rows are the fewest with a value
\* exactly one standard deviation from the mean (1, 2, 3).
InitStd ==
    /\ df \in UNION {Frames(n, CellsUpTo(3)) : n \in 0..MaxRows + 1}
    /\ call = NoCall
    /\ outcome = NoOutcome

NextStd == WithinNStdCall

SpecStd == InitStd /\ [][NextStd]_vars

\* |v - mean| <= n * std for the value at row i of column c, in exact
\* arithmetic (see Inlier), the bound included.  A missing value, or a
\* column with fewer than two numbers (whose std is undefined), satisfies no
\* comparison.
WithinStd(c, i, n) ==
    LET col == df.data[c]
        xs == Numbers(col)
        N == Len(xs)
        S == SumSeq(xs)
        sq == SumSeq([k \in 1..N |-> (N * xs[k] - S) * (N * xs[k] - S)])
    IN /\ ~col[i].null
       /\ N >= 2
       /\ (N - 1) * (N * col[i].v - S) * (N * col[i].v - S) <= n * n * sq

\* The (row, column) positions of the values outside the bound.
OutsideStd(n) == {p \in (1..NRows(df)) \X ColSet : ~WithinStd(p[2], p[1], n)}

\* C12: within_n_std(df, n) returns the table if and only if every value v
\* of every column satisfies |v - mean(column)| <= n * std(column), so that
\* a value exactly n standard deviations from the mean and every value of a
\* constant column pass; otherwise it raises with exactly the (row, column)
\* locations of the values outside that bound.
C12_WithinNStd ==
    call.name = "within_n_std" =>
        /\ outcome.kind = "return" <=> OutsideStd(call.n) = {}
        /\ outcome.kind = "return" => outcome.ret = df
        /\ outcome.kind # "return" =>
            /\ outcome.kind = "raise"
            /\ outcome.exc = "AssertionError"
            /\ Len(outcome.args[1]) = Cardinality(OutsideStd(call.n))
            /\ SeqToSet(outcome.args[1]) =
                    {<<df.index[p[1]], p[2]>> : p \in OutsideStd(call.n)}

====
